---- MODULE Spec2Model ----
(***************************************************************************)
(* Two Ansible modules:                                                    *)
(*   os_projects.py          - Keystone project reconciler                 *)
(*   vcenter_vrops_config.py - vROPs appliance bootstrap configurator      *)
(* Each is a one-shot script.  The remote side (Keystone, the appliance)   *)
(* keeps its state between runs; a run keeps nothing.                      *)
(***************************************************************************)
EXTENDS Integers, Sequences, FiniteSets, TLC

(***************************************************************************)
(* Bounds                                                                  *)
(***************************************************************************)
MaxRuns == 3
MaxInitProjects == 2
MaxNtpLen == 2
MaxVropsRuns == 2

(***************************************************************************)
(* Python values: None, int, str and bool are kept apart so that           *)
(* truthiness and equality behave as in the interpreter.                   *)
(***************************************************************************)
PyNone == [tag |-> "none", int |-> 0, str |-> "", bool |-> FALSE]
PyInt(n) == [tag |-> "int", int |-> n, str |-> "", bool |-> FALSE]
PyStr(s) == [tag |-> "str", int |-> 0, str |-> s, bool |-> FALSE]
PyBool(b) == [tag |-> "bool", int |-> 0, str |-> "", bool |-> b]

Truthy(v) ==
    CASE v.tag = "none" -> FALSE
      [] v.tag = "int" -> v.int # 0
      [] v.tag = "str" -> v.str # ""
      [] v.tag = "bool" -> v.bool

RECURSIVE SeqsUpTo(_, _)
SeqsUpTo(S, n) ==
    IF n = 0 THEN {<<>>}
    ELSE LET shorter == SeqsUpTo(S, n - 1)
         IN shorter \cup {Append(s, x) : s \in {t \in shorter : Len(t) = n - 1}, x \in S}

Range(s) == {s[i] : i \in 1..Len(s)}

RECURSIVE SelectSeqBy(_, _)
SelectSeqBy(s, keep) ==
    IF s = <<>> THEN <<>>
    ELSE IF Head(s) \in keep THEN <<Head(s)>> \o SelectSeqBy(Tail(s), keep)
         ELSE SelectSeqBy(Tail(s), keep)

(***************************************************************************)
(* os_projects.py                                                          *)
(***************************************************************************)
VARIABLES
    projects,      \* Keystone: the projects, in the order projects.list() returns them
    nextId,        \* Keystone: id given to the next created project
    os_pc,         \* position of the os_projects run
    os_params,     \* module.params of the run
    os_self,       \* OpenstackProject fields: project_id, project, project_domain_id
    os_local,      \* run_state locals: current_state, changed, result
    os_calls,      \* remote calls issued by the run: auth, list, create, delete
    os_out,        \* what the run ended with: exit_json / fail_json / traceback
    os_prev,       \* the run before this one: its parameters and outcome, and the
                   \* projects Keystone held when this run started
    os_runs        \* number of runs started

os_vars == <<projects, nextId, os_pc, os_params, os_self, os_local, os_calls, os_out, os_prev, os_runs>>

VARIABLES
    app_time_servers,          \* appliance: addresses of its NTP servers
    app_password_set,          \* appliance: the initial admin password has been set
    app_configurationRunning,  \* appliance: role promotion is in progress
    v_pc,          \* position of the vcenter_vrops_config run
    v_params,      \* module.params of the run: state, ntp_servers
    v_reqs,        \* requests issued by the run, each with the answer it got
    v_local,       \* values the steps of the run computed
    v_ran,         \* the state_* handlers the run entered
    v_out,         \* what the run ended with: exit_json / fail_json / traceback
    v_prev,        \* the run before this one: its ntp_servers, and whether all its
                   \* requests to sysadmin/cluster/ntp were answered 200
    v_runs         \* number of runs started

v_vars == <<app_time_servers, app_password_set, app_configurationRunning, v_pc, v_params,
            v_reqs, v_local, v_ran, v_out, v_prev, v_runs>>

vars == <<os_vars, v_vars>>

Names == {"N", "M"}
Domains == {"default", "d2"}
States == {"present", "absent"}

NoProject == [id |-> 0, name |-> "", domain_id |-> ""]

NoParams == [state |-> "", new_project_name |-> "", project_domain_id |-> ""]

NoOut == [kind |-> "none", changed |-> FALSE, result |-> PyNone, project_id |-> PyNone,
          msg |-> <<>>]

NoCalls == [auth |-> 0, list |-> 0, create |-> 0, delete |-> 0, failed |-> {}, error |-> ""]

NoLocal == [current_state |-> "", changed |-> FALSE, result |-> PyNone]

NoSelf == [project_id |-> PyNone, project |-> NoProject, project_domain_id |-> ""]

\* Keystone keeps a project name unique within a domain.
UniqueInDomain(ps) ==
    \A i, j \in 1..Len(ps) :
        (ps[i].name = ps[j].name /\ ps[i].domain_id = ps[j].domain_id) => i = j

InitialProjects ==
    {ps \in SeqsUpTo([id : {0}, name : Names, domain_id : Domains], MaxInitProjects) :
        UniqueInDomain(ps)}

WithIds(ps) == [i \in 1..Len(ps) |-> [ps[i] EXCEPT !.id = i]]

Errors == {"Unauthorized", "ConnectFailure"}

InitProject ==
    /\ \E ps \in InitialProjects :
        /\ projects = WithIds(ps)
        /\ nextId = Len(ps) + 1
    /\ os_pc = "idle"
    /\ os_params = NoParams
    /\ os_self = NoSelf
    /\ os_local = NoLocal
    /\ os_calls = NoCalls
    /\ os_out = NoOut
    /\ os_prev = [params |-> NoParams, out |-> NoOut, projects |-> <<>>]
    /\ os_runs = 0

\* module.fail_json(msg=...): the process exits, nothing after it runs.
os_fail_json(prefix, e) ==
    [NoOut EXCEPT !.kind = "fail_json", !.msg = <<prefix, e>>]

\* main() up to OpenstackProject.__init__, before keystone_auth.
OsMain(state, name, domain) ==
    /\ os_pc \in {"idle", "done"}
    /\ os_runs < MaxRuns
    /\ os_runs' = os_runs + 1
    /\ os_prev' = [params |-> os_params, out |-> os_out, projects |-> projects]
    /\ os_params' = [state |-> state, new_project_name |-> name, project_domain_id |-> domain]
    /\ os_self' = [NoSelf EXCEPT !.project_domain_id = IF domain # "" THEN domain ELSE "default"]
    /\ os_local' = NoLocal
    /\ os_calls' = NoCalls
    /\ os_out' = NoOut
    /\ os_pc' = "keystone_auth"
    /\ UNCHANGED v_vars
    /\ UNCHANGED <<projects, nextId>>

\* keystone_auth, then the rest of __init__ (project_id = None, project = None).
keystone_auth(ok, e) ==
    /\ os_pc = "keystone_auth"
    /\ os_calls' = [os_calls EXCEPT !.auth = @ + 1,
                                    !.failed = IF ok THEN @ ELSE @ \cup {"auth"},
                                    !.error = IF ok THEN @ ELSE e]
    /\ IF ok
       THEN /\ os_pc' = "check_project_state"
            /\ UNCHANGED os_out
       ELSE /\ os_pc' = "done"
            /\ os_out' = os_fail_json("Failed to get client: ", e)
    /\ UNCHANGED v_vars
    /\ UNCHANGED <<projects, nextId, os_params, os_self, os_local, os_prev, os_runs>>

NamedProjects_none(name) == <<>>

\* [p for p in self.ks.projects.list() if p.name == self.project_name]
NamedProjects(name) == SelectSeq(projects, LAMBDA p : p.name = name)

\* run_state from the result of check_project_state to the branch it takes.
run_state(current_state, self) ==
    LET desired_state == os_params.state
        module_state == (current_state = desired_state)
        unchanged == IF module_state
                     THEN [NoLocal EXCEPT !.result = self.project_id]
                     ELSE NoLocal
    IN /\ os_self' = self
       /\ os_local' = [unchanged EXCEPT !.current_state = current_state]
       /\ os_pc' = IF current_state = "absent" /\ desired_state = "present"
                   THEN "state_create_project"
                   ELSE IF current_state = "present" /\ desired_state = "absent"
                        THEN "state_delete_project"
                        ELSE "exit_json"

check_project_state(ok, e) ==
    /\ os_pc = "check_project_state"
    /\ os_calls' = [os_calls EXCEPT !.list = @ + 1,
                                    !.failed = IF ok THEN @ ELSE @ \cup {"list"},
                                    !.error = IF ok THEN @ ELSE e]
    /\ IF ~ok
       THEN \* only IndexError is caught: the exception of list() leaves the script
            /\ os_pc' = "done"
            /\ os_out' = [NoOut EXCEPT !.kind = "traceback", !.msg = <<"Traceback", e>>]
            /\ UNCHANGED <<os_self, os_local>>
       ELSE LET found == NamedProjects(os_params.new_project_name)
            IN /\ IF found = <<>>
                  THEN run_state("absent", os_self)
                  ELSE run_state("present",
                                [os_self EXCEPT !.project_id = PyInt(found[1].id),
                                                !.project = found[1]])
               /\ UNCHANGED os_out
    /\ UNCHANGED v_vars
    /\ UNCHANGED <<projects, nextId, os_params, os_prev, os_runs>>

\* Keystone: projects.create refuses a name already used in the domain.
Conflict(name, domain_id) ==
    \E i \in 1..Len(projects) : projects[i].name = name /\ projects[i].domain_id = domain_id

state_create_project(ok, e) ==
    /\ os_pc = "state_create_project"
    /\ ok => ~Conflict(os_params.new_project_name, os_self.project_domain_id)
    /\ os_calls' = [os_calls EXCEPT !.create = @ + 1,
                                    !.failed = IF ok THEN @ ELSE @ \cup {"create"},
                                    !.error = IF ok THEN @ ELSE e]
    /\ IF ok
       THEN LET project == [id |-> nextId, name |-> os_params.new_project_name,
                            domain_id |-> os_self.project_domain_id]
            IN /\ projects' = Append(projects, project)
               /\ nextId' = nextId + 1
               /\ os_self' = [os_self EXCEPT !.project_id = PyInt(project.id)]
               /\ os_local' = [os_local EXCEPT !.changed = TRUE,
                                               !.result = PyInt(project.id)]
               /\ os_pc' = "exit_json"
               /\ UNCHANGED os_out
       ELSE /\ os_pc' = "done"
            /\ os_out' = os_fail_json("Failed to create project: ", e)
            /\ UNCHANGED <<projects, nextId, os_self, os_local>>
    /\ UNCHANGED v_vars
    /\ UNCHANGED <<os_params, os_prev, os_runs>>

\* str(delete_result[0]): the text of the response object of the DELETE.
StrResponse(status) == IF status = 204 THEN "<Response [204]>" ELSE "<Response>"

state_delete_project(ok, e) ==
    /\ os_pc = "state_delete_project"
    /\ os_calls' = [os_calls EXCEPT !.delete = @ + 1,
                                    !.failed = IF ok THEN @ ELSE @ \cup {"delete"},
                                    !.error = IF ok THEN @ ELSE e]
    /\ IF ok
       THEN /\ projects' = SelectSeq(projects, LAMBDA p : p.id # os_self.project.id)
            /\ os_local' = [os_local EXCEPT !.changed = TRUE,
                                            !.result = PyStr(StrResponse(204))]
            /\ os_pc' = "exit_json"
            /\ UNCHANGED os_out
       ELSE /\ os_pc' = "done"
            /\ os_out' = os_fail_json("Failed to delete Project: ", e)
            /\ UNCHANGED <<projects, os_local>>
    /\ UNCHANGED v_vars
    /\ UNCHANGED <<nextId, os_params, os_self, os_prev, os_runs>>

\* self.module.exit_json(changed=changed, result=result, project_id=self.project_id)
os_exit_json ==
    /\ os_pc = "exit_json"
    /\ os_out' = [NoOut EXCEPT !.kind = "exit_json", !.changed = os_local.changed,
                               !.result = os_local.result,
                               !.project_id = os_self.project_id]
    /\ os_pc' = "done"
    /\ UNCHANGED v_vars
    /\ UNCHANGED <<projects, nextId, os_params, os_self, os_local, os_calls, os_prev, os_runs>>

NextProject ==
    \/ \E state \in States, name \in Names, domain \in Domains \cup {""} :
          OsMain(state, name, domain)
    \/ \E ok \in BOOLEAN, e \in Errors : keystone_auth(ok, e)
    \/ \E ok \in BOOLEAN, e \in Errors : check_project_state(ok, e)
    \/ \E ok \in BOOLEAN, e \in Errors : state_create_project(ok, e)
    \/ \E ok \in BOOLEAN, e \in Errors : state_delete_project(ok, e)
    \/ os_exit_json

(***************************************************************************)
(* vcenter_vrops_config.py                                                 *)
(***************************************************************************)
Servers == {"ntp1", "ntp2"}

ServerLists == SeqsUpTo(Servers, MaxNtpLen)

\* Paths under https://<server>/casa/ ; the ready check goes to the base url.
BaseUrl == ""
NtpPath == "sysadmin/cluster/ntp"
AdminPasswordPath == "security/adminpassword/initial"
RoleStatusPath == "deployment/slice/role/status"
RolePath == "deployment/slice/role"

AlreadySetKey == "security.initial_password_already_set"
OtherErrorKey == "general.failure"

\* Decoded JSON body of a response; none stands for Python's None.
NoContent == [none |-> TRUE, keys |-> {}, time_servers |-> <<>>,
              error_message_key |-> "", configurationRunning |-> FALSE]

NtpContent(addresses) ==
    [NoContent EXCEPT !.none = FALSE, !.keys = {"time_servers"},
                      !.time_servers = [i \in 1..Len(addresses) |-> [address |-> addresses[i]]]]

ErrorContent(key) ==
    [NoContent EXCEPT !.none = FALSE, !.keys = {"error_message_key"},
                      !.error_message_key = key]

RoleStatusContent(running) ==
    [NoContent EXCEPT !.none = FALSE, !.keys = {"configurationRunning"},
                      !.configurationRunning = running]

\* content[key] raises TypeError on None and KeyError on a missing key.
Subscriptable(content, key) == ~content.none /\ key \in content.keys

\* What the wire gives back: a connection error, or a status code with a body.
ConnectionError == [conn_error |-> TRUE, status_code |-> 0, content |-> NoContent]

Response(status_code, content) ==
    [conn_error |-> FALSE, status_code |-> status_code, content |-> content]

NoVParams == [state |-> "", ntp_servers |-> <<>>]

NoVOut == [kind |-> "none", changed |-> FALSE, result |-> PyNone, msg |-> ""]

NoVLocal == [changed |-> FALSE, result |-> PyNone, msg |-> "",
             admin_password_state |-> PyNone, ntp_state |-> FALSE, ntp_list |-> <<>>,
             admin_role_state |-> FALSE]

NoVPrev == [ran |-> FALSE, ntp_servers |-> <<>>, ntp_succeeded |-> FALSE]

InitVrops ==
    /\ app_time_servers \in ServerLists
    /\ app_password_set \in BOOLEAN
    /\ app_configurationRunning \in BOOLEAN
    /\ v_pc = "idle"
    /\ v_params = NoVParams
    /\ v_reqs = <<>>
    /\ v_local = NoVLocal
    /\ v_ran = {}
    /\ v_out = NoVOut
    /\ v_prev = NoVPrev
    /\ v_runs = 0

\* do_request: the except clauses for a status code outside status_codes and
\* for 401 are only looked at when an exception is raised, and a response with
\* any status code raises none; so the status code is returned whatever it is,
\* and (None, None) on a connection error.
do_request(request_type, status_codes, w) ==
    IF w.conn_error
    THEN [status_code |-> PyNone, content |-> NoContent]
    ELSE [status_code |-> PyInt(w.status_code), content |-> w.content]

\* The entry of the request in the run's record.
Request(request_type, path, status_codes, body, w) ==
    [method |-> request_type, path |-> path, status_codes |-> status_codes, body |-> body,
     conn_error |-> w.conn_error, status_code |-> w.status_code, content |-> w.content]

\* The answer is a status code of the call's status_codes list.
Accepted(req) == ~req.conn_error /\ req.status_code \in req.status_codes

\* The run asked for the NTP servers, and every request about them was accepted.
NtpRequestsAccepted(reqs) ==
    /\ \E i \in 1..Len(reqs) : reqs[i].path = NtpPath
    /\ \A i \in 1..Len(reqs) : reqs[i].path = NtpPath => Accepted(reqs[i])

\* An uncaught exception ends the script with a traceback.
VTraceback(exception) == [NoVOut EXCEPT !.kind = "traceback", !.msg = exception]

check_state_present == "present"

check_state == "absent"

\* main(), VropsConfig.__init__ and run_state up to the branch it takes.
VRunState(state, ntp_servers) ==
    /\ v_pc \in {"idle", "done"}
    /\ v_runs < MaxVropsRuns
    /\ v_runs' = v_runs + 1
    /\ v_prev' = [ran |-> v_runs > 0, ntp_servers |-> v_params.ntp_servers,
                  ntp_succeeded |-> NtpRequestsAccepted(v_reqs)]
    /\ v_params' = [state |-> state, ntp_servers |-> ntp_servers]
    /\ v_reqs' = <<>>
    /\ v_out' = NoVOut
    /\ LET desired_state == state
           current_state == check_state
           module_state == (desired_state = current_state)
           unchanged == IF module_state
                        THEN [NoVLocal EXCEPT !.msg = "EXIT UNCHANGED"]
                        ELSE NoVLocal
           deleted == IF desired_state = "absent" /\ current_state = "present"
                      THEN [unchanged EXCEPT !.msg = "STATE DELETE"]
                      ELSE unchanged
           create == desired_state = "present" /\ current_state = "absent"
       IN /\ v_ran' = (IF module_state THEN {"state_exit_unchanged"} ELSE {})
                      \cup (IF desired_state = "absent" /\ current_state = "present"
                            THEN {"state_delete"} ELSE {})
                      \cup (IF create THEN {"state_create"} ELSE {})
          /\ v_local' = IF create THEN [deleted EXCEPT !.msg = "STATE CREATE"] ELSE deleted
          /\ v_pc' = IF create THEN "api_state" ELSE "exit_json"
    /\ UNCHANGED os_vars
    /\ UNCHANGED <<app_time_servers, app_password_set, app_configurationRunning>>

ReadyResponses == {ConnectionError, Response(200, NoContent), Response(503, NoContent)}

\* state_create: api_state and the test of its result.
api_state(w) ==
    /\ v_pc = "api_state"
    /\ LET r == do_request("get", {200}, w)
       IN /\ v_reqs' = Append(v_reqs, Request("get", BaseUrl, {200}, <<>>, w))
          /\ IF ~Truthy(r.status_code)
             THEN /\ v_out' = [NoVOut EXCEPT !.kind = "fail_json",
                                             !.msg = "API should be ready but is not"]
                  /\ v_pc' = "done"
             ELSE /\ v_pc' = "set_admin_init_password"
                  /\ UNCHANGED v_out
    /\ UNCHANGED os_vars
    /\ UNCHANGED <<app_time_servers, app_password_set, app_configurationRunning, v_params,
                   v_local, v_ran, v_prev, v_runs>>

\* The appliance sets the password once and answers 500 already-set afterwards.
AdminPasswordResponses ==
    {ConnectionError, Response(404, NoContent), Response(500, ErrorContent(OtherErrorKey)),
     Response(500, NoContent),
     IF app_password_set THEN Response(500, ErrorContent(AlreadySetKey))
                         ELSE Response(200, NoContent)}

set_admin_init_password(w) ==
    /\ v_pc = "set_admin_init_password"
    /\ LET r == do_request("put", {200, 500}, w)
       IN /\ v_reqs' = Append(v_reqs, Request("put", AdminPasswordPath, {200, 500}, <<>>, w))
          /\ app_password_set' = (app_password_set \/ (~w.conn_error /\ w.status_code = 200))
          /\ IF r.status_code = PyInt(500)
             THEN IF Subscriptable(r.content, "error_message_key")
                  THEN /\ v_local' = [v_local EXCEPT !.admin_password_state =
                                         PyBool(r.content.error_message_key # AlreadySetKey)]
                       /\ v_pc' = "ntp_state"
                       /\ UNCHANGED v_out
                  ELSE /\ v_out' = VTraceback("TypeError")
                       /\ v_pc' = "done"
                       /\ UNCHANGED v_local
             ELSE /\ v_local' = [v_local EXCEPT !.admin_password_state = r.status_code]
                  /\ v_pc' = "ntp_state"
                  /\ UNCHANGED v_out
    /\ UNCHANGED os_vars
    /\ UNCHANGED <<app_time_servers, app_configurationRunning, v_params, v_ran, v_prev, v_runs>>

\* _update_ntp_servers with the symmetric difference in place of the servers to add.
_update_ntp_servers_symmetric(ntp_servers, content) ==
    LET current_ntp_servers == [i \in 1..Len(content.time_servers) |->
                                   content.time_servers[i].address]
    IN SelectSeqBy(ntp_servers \o current_ntp_servers,
                   (Range(ntp_servers) \cup Range(current_ntp_servers))
                   \ (Range(ntp_servers) \cap Range(current_ntp_servers)))

_update_ntp_servers(ntp_servers, content) ==
    LET current_ntp_servers == [i \in 1..Len(content.time_servers) |->
                                   content.time_servers[i].address]
        common_servers == Range(ntp_servers) \cap Range(current_ntp_servers)
    IN IF Range(ntp_servers) = Range(current_ntp_servers)
       THEN <<>>
       ELSE SelectSeqBy(ntp_servers, Range(ntp_servers) \ common_servers)

NtpGetResponses ==
    {ConnectionError, Response(200, NtpContent(app_time_servers)), Response(401, NoContent)}

\* configure_ntp: ntp_state and the test of its result.
ntp_state(w) ==
    /\ v_pc = "ntp_state"
    /\ LET r == do_request("get", {200}, w)
           ntp_servers == v_params.ntp_servers
       IN /\ v_reqs' = Append(v_reqs, Request("get", NtpPath, {200}, <<>>, w))
          /\ IF ~Subscriptable(r.content, "time_servers")
             THEN /\ v_out' = VTraceback(IF r.content.none THEN "TypeError" ELSE "KeyError")
                  /\ v_pc' = "done"
                  /\ UNCHANGED v_local
             ELSE IF r.content.time_servers = <<>>
                  THEN /\ v_local' = [v_local EXCEPT !.ntp_state = FALSE,
                                                     !.ntp_list = ntp_servers]
                       /\ v_pc' = "set_ntp"
                       /\ UNCHANGED v_out
                  ELSE LET ntp_list == _update_ntp_servers(ntp_servers, r.content)
                       IN /\ v_local' = [v_local EXCEPT !.ntp_state = (ntp_list = <<>>),
                                                        !.ntp_list = ntp_list]
                          /\ v_pc' = IF ntp_list = <<>> THEN "admin_role_state" ELSE "set_ntp"
                          /\ UNCHANGED v_out
    /\ UNCHANGED os_vars
    /\ UNCHANGED <<app_time_servers, app_password_set, app_configurationRunning, v_params,
                   v_ran, v_prev, v_runs>>

\* ntp_body assigning the entry instead of appending it: only the last one stays.
ntp_body_last(ntp_servers) ==
    [time_servers |-> IF ntp_servers = <<>> THEN <<>>
                      ELSE <<[address |-> ntp_servers[Len(ntp_servers)]]>>]

ntp_body(ntp_servers) ==
    [time_servers |-> [i \in 1..Len(ntp_servers) |-> [address |-> ntp_servers[i]]]]

NtpPostResponses == {ConnectionError, Response(200, NoContent), Response(500, NoContent)}

\* configure_ntp: set_ntp.  An accepted POST makes the posted servers the
\* appliance's servers.
set_ntp(w) ==
    /\ v_pc = "set_ntp"
    /\ LET body == ntp_body(v_local.ntp_list)
       IN /\ v_reqs' = Append(v_reqs, Request("post", NtpPath, {200}, body, w))
          /\ app_time_servers' =
                IF ~w.conn_error /\ w.status_code = 200
                THEN [i \in 1..Len(body.time_servers) |-> body.time_servers[i].address]
                ELSE app_time_servers
    /\ v_pc' = "admin_role_state"
    /\ UNCHANGED os_vars
    /\ UNCHANGED <<app_password_set, app_configurationRunning, v_params, v_local, v_ran,
                   v_out, v_prev, v_runs>>

RoleStatusResponses ==
    {ConnectionError, Response(200, RoleStatusContent(app_configurationRunning)),
     Response(401, NoContent)}

\* admin_role: admin_role_state and the test of its result.
admin_role_state(w) ==
    /\ v_pc = "admin_role_state"
    /\ LET r == do_request("get", {200}, w)
       IN /\ v_reqs' = Append(v_reqs, Request("get", RoleStatusPath, {200}, <<>>, w))
          /\ IF Truthy(r.status_code)
             THEN IF Subscriptable(r.content, "configurationRunning")
                  THEN /\ v_local' = [v_local EXCEPT !.admin_role_state =
                                                        r.content.configurationRunning]
                       /\ v_pc' = IF r.content.configurationRunning
                                  THEN "exit_json" ELSE "set_admin_role"
                       /\ UNCHANGED v_out
                  ELSE /\ v_out' = VTraceback("TypeError")
                       /\ v_pc' = "done"
                       /\ UNCHANGED v_local
             ELSE /\ v_local' = [v_local EXCEPT !.admin_role_state = FALSE]
                  /\ v_pc' = "set_admin_role"
                  /\ UNCHANGED v_out
    /\ UNCHANGED os_vars
    /\ UNCHANGED <<app_time_servers, app_password_set, app_configurationRunning, v_params,
                   v_ran, v_prev, v_runs>>

RolePostResponses == {ConnectionError, Response(202, NoContent), Response(500, NoContent)}

\* admin_role: set_admin_role.  The appliance starts the promotion when it
\* answers 202.
set_admin_role(w) ==
    /\ v_pc = "set_admin_role"
    /\ v_reqs' = Append(v_reqs, Request("post", RolePath, {209}, <<>>, w))
    /\ app_configurationRunning' =
          (app_configurationRunning \/ (~w.conn_error /\ w.status_code = 202))
    /\ v_pc' = "exit_json"
    /\ UNCHANGED os_vars
    /\ UNCHANGED <<app_time_servers, app_password_set, v_params, v_local, v_ran, v_out,
                   v_prev, v_runs>>

\* The appliance took a PUT or POST of the run.
WriteTaken(reqs) ==
    \E i \in 1..Len(reqs) :
        /\ reqs[i].method \in {"put", "post"}
        /\ ~reqs[i].conn_error
        /\ reqs[i].status_code \in {200, 202}

\* state_create reporting changed when the appliance took a write.
state_create_return_changed(reqs) ==
    [changed |-> WriteTaken(reqs), result |-> PyNone, msg |-> "STATE CREATE"]

\* What state_create returns: changed and result are never reassigned.
state_create_return(reqs) ==
    [changed |-> FALSE, result |-> PyNone, msg |-> "STATE CREATE"]

\* self.module.exit_json(changed=changed, result=result, msg=msg)
v_exit_json ==
    /\ v_pc = "exit_json"
    /\ LET r == IF "state_create" \in v_ran THEN state_create_return(v_reqs) ELSE v_local
       IN v_out' = [NoVOut EXCEPT !.kind = "exit_json", !.changed = r.changed,
                                 !.result = r.result, !.msg = r.msg]
    /\ v_pc' = "done"
    /\ UNCHANGED os_vars
    /\ UNCHANGED <<app_time_servers, app_password_set, app_configurationRunning, v_params,
                   v_reqs, v_local, v_ran, v_prev, v_runs>>

NextVrops ==
    \/ \E state \in States, ntp_servers \in ServerLists : VRunState(state, ntp_servers)
    \/ \E w \in ReadyResponses : api_state(w)
    \/ \E w \in AdminPasswordResponses : set_admin_init_password(w)
    \/ \E w \in NtpGetResponses : ntp_state(w)
    \/ \E w \in NtpPostResponses : set_ntp(w)
    \/ \E w \in RoleStatusResponses : admin_role_state(w)
    \/ \E w \in RolePostResponses : set_admin_role(w)
    \/ v_exit_json

\* Each script runs on its own: while one is run the other's side stays as it is.
VropsIdle ==
    /\ app_time_servers = <<>>
    /\ app_password_set = FALSE
    /\ app_configurationRunning = FALSE
    /\ v_pc = "idle"
    /\ v_params = NoVParams
    /\ v_reqs = <<>>
    /\ v_local = NoVLocal
    /\ v_ran = {}
    /\ v_out = NoVOut
    /\ v_prev = NoVPrev
    /\ v_runs = 0

ProjectIdle ==
    /\ projects = <<>>
    /\ nextId = 1
    /\ os_pc = "idle"
    /\ os_params = NoParams
    /\ os_self = NoSelf
    /\ os_local = NoLocal
    /\ os_calls = NoCalls
    /\ os_out = NoOut
    /\ os_prev = [params |-> NoParams, out |-> NoOut, projects |-> <<>>]
    /\ os_runs = 0

InitVropsRun == InitVrops /\ ProjectIdle

SpecVrops == InitVropsRun /\ [][NextVrops]_vars

InitProjectRun == InitProject /\ VropsIdle

SpecProject == InitProjectRun /\ [][NextProject]_vars

(***************************************************************************)
(* Claims about os_projects.py                                             *)
(***************************************************************************)
OsDone == os_pc = "done"

OsClean == os_calls.failed = {}

\* Projects named as the run asks, when the run started and now.
OsNamedAtStart == SelectSeq(os_prev.projects, LAMBDA p : p.name = os_params.new_project_name)

OsNamedNow == SelectSeq(projects, LAMBDA p : p.name = os_params.new_project_name)

OsRepeated ==
    /\ os_prev.params = os_params
    /\ os_prev.out.kind = "exit_json"

\* C1: a state=present run that found no project of the requested name issues
\* exactly one create, exits changed=true with result = project_id = the id of
\* the created project (not None), and leaves exactly one project of that name;
\* a run that repeats the parameters of a run that exited issues no create,
\* exits changed=false and leaves Keystone's projects as they were.
C1_CreateOnceThenNoop ==
    (OsDone /\ os_params.state = "present") =>
        /\ (OsNamedAtStart = <<>> /\ OsClean) =>
              /\ os_out.kind = "exit_json"
              /\ os_calls.create = 1
              /\ os_out.changed
              /\ os_out.result.tag = "int" /\ os_out.result.int > 0
              /\ os_out.project_id = os_out.result
              /\ Len(OsNamedNow) = 1
              /\ OsNamedNow[1].id = os_out.result.int
              /\ OsNamedNow[1].domain_id = os_self.project_domain_id
        /\ OsRepeated =>
              /\ os_calls.create = 0
              /\ projects = os_prev.projects
              /\ OsClean => (os_out.kind = "exit_json" /\ ~os_out.changed)

\* C1: witness - a project was created by a first run, and the run repeating it
\* has exited without change.
C1_Witness ==
    /\ OsDone /\ os_params.state = "present" /\ OsRepeated
    /\ os_prev.out.changed
    /\ os_out.kind = "exit_json"
    /\ os_runs = 2

\* C2: a state=absent run that found a project of the requested name issues
\* exactly one delete and exits changed=true with the deletion result; a run
\* that repeats the parameters of a run that exited issues no delete and exits
\* changed=false.
C2_DeleteOnceThenNoop ==
    (OsDone /\ os_params.state = "absent") =>
        /\ (OsNamedAtStart # <<>> /\ OsClean) =>
              /\ os_out.kind = "exit_json"
              /\ os_calls.delete = 1
              /\ os_out.changed
              /\ os_out.result = PyStr(StrResponse(204))
        /\ OsRepeated =>
              /\ os_calls.delete = 0
              /\ OsClean => (os_out.kind = "exit_json" /\ ~os_out.changed)

\* C3: a run in which a remote step failed ends in fail_json with a message
\* that carries the error, never in exit_json, and no call is issued twice.
C3_FailureIsFailJson ==
    /\ (OsDone /\ ~OsClean) =>
          /\ os_out.kind = "fail_json"
          /\ os_calls.error \in Range(os_out.msg)
    /\ ~OsClean => os_pc = "done"
    /\ \A c \in {"auth", "list", "create", "delete"} : os_calls[c] <= 1

(***************************************************************************)
(* Claims about vcenter_vrops_config.py                                    *)
(***************************************************************************)
VDone == v_pc = "done"

VRequests(method, path) ==
    {i \in 1..Len(v_reqs) : v_reqs[i].method = method /\ v_reqs[i].path = path}

Addresses(time_servers) == [i \in 1..Len(time_servers) |-> time_servers[i].address]

\* The elements of D that are not in C, in D's order.
DesiredNotCurrent(D, C) == SelectSeq(D, LAMBDA s : s \notin Range(C))

\* The GET of sysadmin/cluster/ntp reported a list of servers.
NtpReported(i) ==
    /\ i \in VRequests("get", NtpPath)
    /\ Subscriptable(v_reqs[i].content, "time_servers")

\* C4: when the appliance reports a non-empty list C, the update list is the
\* elements of the desired list D not in C, in D's order; and when D and C
\* hold the same servers the update list is empty and nothing is POSTed.
C4_UpdateListIsDesiredNotCurrent ==
    \A i \in 1..Len(v_reqs) :
        (NtpReported(i) /\ v_reqs[i].content.time_servers # <<>>) =>
            LET D == v_params.ntp_servers
                C == Addresses(v_reqs[i].content.time_servers)
            IN /\ v_local.ntp_list = DesiredNotCurrent(D, C)
               /\ Range(D) = Range(C) =>
                     /\ v_local.ntp_list = <<>>
                     /\ VRequests("post", NtpPath) = {}

\* C4: witness - desired [ntp1, ntp2] against current [ntp1] gave [ntp2].
C4_Witness ==
    /\ v_params.ntp_servers = <<"ntp1", "ntp2">>
    /\ \E i \in 1..Len(v_reqs) :
          /\ NtpReported(i)
          /\ Addresses(v_reqs[i].content.time_servers) = <<"ntp1">>
    /\ v_local.ntp_list = <<"ntp2">>
    /\ v_pc = "set_ntp"

\* C5: the admin password step reports success on 200 and on 500 with the
\* already-set key, and failure on 500 with any other key.
C5_AlreadySetIsSuccess ==
    \A i \in VRequests("put", AdminPasswordPath) :
        LET r == v_reqs[i]
            state == v_local.admin_password_state
            keyed == Subscriptable(r.content, "error_message_key")
        IN ~r.conn_error =>
              /\ r.status_code = 200 => Truthy(state)
              /\ (r.status_code = 500 /\ keyed /\ r.content.error_message_key = AlreadySetKey)
                    => Truthy(state)
              /\ (r.status_code = 500 /\ keyed /\ r.content.error_message_key # AlreadySetKey)
                    => ~Truthy(state)

\* C6: a request that met a connection error or a status code outside its
\* status_codes is the last request of the run, and the run has ended with a
\* failure that carries a message, not with exit_json.
C6_TransportFailureAborts ==
    \A i \in 1..Len(v_reqs) :
        ~Accepted(v_reqs[i]) =>
            /\ i = Len(v_reqs)
            /\ v_pc = "done"
            /\ v_out.kind \in {"fail_json", "traceback"}
            /\ v_out.msg # ""

\* C7: a POST to deployment/slice/role comes right after a status query that
\* reported configurationRunning false; a run whose status query reported
\* configurationRunning true has no such POST.
C7_PromotionOnlyWhenNotRunning ==
    /\ \A i \in VRequests("post", RolePath) :
          /\ i > 1
          /\ (i - 1) \in VRequests("get", RoleStatusPath)
          /\ Subscriptable(v_reqs[i - 1].content, "configurationRunning")
          /\ ~v_reqs[i - 1].content.configurationRunning
    /\ (\E j \in VRequests("get", RoleStatusPath) :
            /\ Subscriptable(v_reqs[j].content, "configurationRunning")
            /\ v_reqs[j].content.configurationRunning)
          => VRequests("post", RolePath) = {}

\* C8: state_delete is never entered; a state=absent run issues no request and
\* exits changed=false with msg EXIT UNCHANGED; a state=present run enters
\* state_create and never state_exit_unchanged.
C8_CheckStateAlwaysAbsent ==
    /\ "state_delete" \notin v_ran
    /\ v_params.state = "absent" =>
          /\ v_reqs = <<>>
          /\ v_pc \in {"exit_json", "done"}
          /\ VDone => v_out = [NoVOut EXCEPT !.kind = "exit_json", !.msg = "EXIT UNCHANGED"]
    /\ v_params.state = "present" =>
          /\ "state_create" \in v_ran
          /\ "state_exit_unchanged" \notin v_ran

\* C8: witness - a state=absent run has exited unchanged.
C8_Witness ==
    /\ VDone
    /\ v_params.state = "absent"
    /\ v_out.kind = "exit_json"
    /\ v_out.msg = "EXIT UNCHANGED"
    /\ v_ran = {"state_exit_unchanged"}

\* The servers of a POST to sysadmin/cluster/ntp, and the list the GET before
\* it reported.
Posted(i) == Addresses(v_reqs[i].body.time_servers)

ReportedBefore(i) == Addresses(v_reqs[i - 1].content.time_servers)

\* C9 as claimed: the servers of the POST are those in exactly one of the
\* desired and the current set.
C9_PostIsSymmetricDifference ==
    \A i \in VRequests("post", NtpPath) :
        LET D == Range(v_params.ntp_servers)
            C == Range(ReportedBefore(i))
        IN Range(Posted(i)) = (D \ C) \cup (C \ D)

\* C9 as amended: the servers of the POST are the desired servers that are not
\* in the current list, in the order of the desired list.
C9_PostIsDesiredNotCurrent ==
    \A i \in VRequests("post", NtpPath) :
        /\ NtpReported(i - 1)
        /\ Posted(i) = DesiredNotCurrent(v_params.ntp_servers, ReportedBefore(i))

\* C9: witness - desired [ntp1] against current [ntp2]: [ntp1] is POSTed.
C9_Witness ==
    \E i \in VRequests("post", NtpPath) :
        /\ v_params.ntp_servers = <<"ntp1">>
        /\ ReportedBefore(i) = <<"ntp2">>
        /\ Posted(i) = <<"ntp1">>

\* configure_ntp has returned and all its requests were answered 200.
NtpSucceeded ==
    /\ v_pc \notin {"ntp_state", "set_ntp"}
    /\ NtpRequestsAccepted(v_reqs)

\* C10: after a configure_ntp whose requests all succeeded the appliance's
\* servers are the desired ones, and the configure_ntp of the next run, with
\* the same desired list, issues no POST.
C10_NtpConverges ==
    /\ NtpSucceeded => Range(app_time_servers) = Range(v_params.ntp_servers)
    /\ (v_prev.ran /\ v_prev.ntp_succeeded /\ v_prev.ntp_servers = v_params.ntp_servers)
          => VRequests("post", NtpPath) = {}

\* Place of a request in the bootstrap sequence: ready check, admin password,
\* NTP query, NTP push, role status, role promotion.
BootstrapRank(req) ==
    CASE req.method = "get" /\ req.path = BaseUrl -> 1
      [] req.method = "put" /\ req.path = AdminPasswordPath -> 2
      [] req.method = "get" /\ req.path = NtpPath -> 3
      [] req.method = "post" /\ req.path = NtpPath -> 4
      [] req.method = "get" /\ req.path = RoleStatusPath -> 5
      [] req.method = "post" /\ req.path = RolePath -> 6
      [] OTHER -> 0

ReadyReturned200 == ~v_reqs[1].conn_error /\ v_reqs[1].status_code = 200

\* C11: the ready check is the first request of a state=present run; the
\* other requests follow in the bootstrap order and only after the ready check
\* returned 200; otherwise the run has failed with 'API should be ready but is
\* not' and the ready check is its only request.
C11_ReadyGateAndOrder ==
    v_reqs # <<>> =>
        /\ BootstrapRank(v_reqs[1]) = 1
        /\ \A i, j \in 1..Len(v_reqs) :
              i < j => BootstrapRank(v_reqs[i]) < BootstrapRank(v_reqs[j])
        /\ Len(v_reqs) > 1 => ReadyReturned200
        /\ ~ReadyReturned200 =>
              /\ Len(v_reqs) = 1
              /\ v_pc = "done"
              /\ v_out = [NoVOut EXCEPT !.kind = "fail_json",
                                        !.msg = "API should be ready but is not"]

\* A project of the requested name existed when the run started, but none in
\* the requested domain.
OsOnlyInOtherDomain ==
    /\ OsNamedAtStart # <<>>
    /\ \A i \in 1..Len(OsNamedAtStart) :
          OsNamedAtStart[i].domain_id # os_self.project_domain_id

\* C12: when the name exists only in another domain, a state=present run
\* creates the project in the requested domain and a state=absent run issues
\* no delete; the project a run deletes is of the requested domain.
C12_DomainScoped ==
    /\ (OsDone /\ OsClean /\ OsOnlyInOtherDomain /\ os_params.state = "present") =>
          /\ os_calls.create = 1
          /\ \E i \in 1..Len(OsNamedNow) :
                OsNamedNow[i].domain_id = os_self.project_domain_id
    /\ (OsOnlyInOtherDomain /\ os_params.state = "absent") => os_calls.delete = 0
    /\ os_calls.delete > 0 => os_self.project.domain_id = os_self.project_domain_id

\* C13: a run that ends with exit_json reports changed=false and result=None,
\* also when the appliance took the admin password, the NTP servers or the
\* role promotion; no run reports changed=true.
C13_NeverChanged ==
    /\ ~v_out.changed
    /\ v_out.kind = "exit_json" => v_out.result = PyNone

\* C13: witness - the run has exited after the admin password PUT and the NTP
\* POST were answered 200 and the role POST 202.
C13_Witness ==
    /\ VDone
    /\ v_out.kind = "exit_json"
    /\ \E i \in VRequests("put", AdminPasswordPath) : v_reqs[i].status_code = 200
    /\ \E i \in VRequests("post", NtpPath) : v_reqs[i].status_code = 200
    /\ \E i \in VRequests("post", RolePath) : v_reqs[i].status_code = 202

====
